---- MODULE Spec2Model ----
(***************************************************************************)
(* A model of glycol's core: the transition detector (glycol/monitor.py),  *)
(* the SSE broadcast hub (glycol/web.py) and the OpenSky state client with *)
(* its token manager (glycol/api.py, glycol/auth.py).                      *)
(*                                                                         *)
(* The specifications share the variables; each leaves the other           *)
(* components untouched:                                                   *)
(*   SpecMon   AircraftMonitor: set_filter, reset, process_states          *)
(*   SpecHub   GlycolWebApp._broadcast_event and the /api/stream queues    *)
(*   SpecApi   OpenSkyClient.get_states over OpenSkyAuth                   *)
(*   SpecCtl   the poll controller of the web app (glycol/web.py) and of   *)
(*             the desktop app (glycol/ui.py): start, stop, the poll loop  *)
(*   SpecCtlFair   SpecCtl with every thread and handler scheduled         *)
(***************************************************************************)
EXTENDS Integers, Sequences, FiniteSets, TLC

VARIABLES
    \* ---- AircraftMonitor (monitor.py) ----
    filter_mode,      \* self.filter_mode
    filter_values,    \* self.filter_values (a list, upper-cased)
    prev_states,      \* self._prev_states: icao24 -> on_ground
    monPc,            \* "idle", or "loop" inside process_states' for loop
    current,          \* process_states' local `current`
    events,           \* process_states' local `events` (the returned list)
    batch,            \* the states the running/last call has consumed so far
    prevBefore,       \* history: _prev_states when the running/last call began
                      \* (the locals and histories of a call are dropped by the next operation)
    dropped,          \* history: per icao24, "no", or the on_ground it was tracked with
                      \* when a completed call dropped it for being absent (and it has been absent since)
    gapBefore,        \* history: `dropped` when the running/last call began
    lastOp,           \* history: the last completed operation of the monitor
    elapsed,          \* datetime.now(utc) minus process_states' local `now`: the ticks
                      \* of the clock since the running/last call read it
    \* ---- BroadcastHub (web.py) ----
    event_queues,     \* self._event_queues: the list of live queues
    queue,            \* the content of each subscriber's queue.Queue(maxsize=50)
    subPc,            \* each /api/stream generator: "new", "streaming", "closed"
    lock,             \* self._queues_lock: "free" or its holder
    pubPc,            \* _broadcast_event: "idle", "loop", "remove"
    message,          \* _broadcast_event's local `message` (its identity)
    pubI,             \* index of the for loop over self._event_queues
    dead_queues,      \* _broadcast_event's local `dead_queues`
    msgSeq,           \* identity the next message built will have
    subOrder,         \* history: the queues in the order they subscribed
    pubSnapshot,      \* history: self._event_queues when the running/last publish began
    visitLog,         \* history: the queues the running/last publish has visited, in order, each
                      \* with whether it held 50 messages then, whether the message was
                      \* enqueued, and the message
    evicted,          \* history: the queues some completed publish has removed
    expected,         \* history: per stream, the message it is due to yield next if it
                      \* misses none: the first one published after it subscribed, then
                      \* the one after each message it has yielded (0 once closed)
    \* ---- OpenSkyClient over OpenSkyAuth (api.py, auth.py) ----
    clock,            \* time.time(), in whole seconds
    token,            \* auth._token: <<>> for None, else <<the token (named by its time of issue)>>
    expires_at,       \* auth._expires_at
    backoff_until,    \* client._backoff_until
    rate_limit_remaining,  \* client.rate_limit_remaining: <<>> for None, else <<n>>
    apiPc,            \* get_states: "idle", "headers1", "request", "reauth", "headers2", "retry"
    now,              \* get_states' local `now`
    headers,          \* get_states' local `headers`: <<>> for {}, else <<the bearer token>>
    call,             \* history: what the running/last get_states call has done, and how
                      \* many token requests in a row, up to this moment and counting no
                      \* further than 2, were answered by a failure (failures); retry429
                      \* is "no", or the Retry-After header of the 429 that answered
                      \* the call's retry after a 401
    rl429,            \* history: <<>>, or the time of the last 429 handled, the seconds
                      \* of backoff taken from it and its Retry-After header
    grant,            \* history: <<>>, or the time and the lifetime (expires_in) of the
                      \* last successful authentication
    authLog,          \* history: <<>>, or, right after a get_headers or authenticate call
                      \* of get_states returned or raised (before time passes), which call
                      \* it was, whether it found a token held, and the reply to the token
                      \* request it sent ("none" if it sent none)
    \* ---- Poll controller (web.py: GlycolWebApp, ui.py: GlycolApp) ----
    app,              \* the application running: "none", "web" or "ui"
    client,           \* self.client is not None
    polling,          \* self._polling
    stop_event,       \* self._stop_event.is_set()
    poll_thread,      \* self._poll_thread: 0 for None, else the thread
    poll_interval,    \* web: self.poll_interval; ui: self.poll_var
    current_airport,  \* web: self.current_airport
    threads,          \* each poll-loop thread: where it is in _poll_loop (pc), ui's
                      \* `airport` argument, the states its fetch returned, and as
                      \* history whether the last cycle it completed raised (failed)
                      \* and why it left the loop (exit)
    hpc,              \* each web request handler: "idle", or where it is in
                      \* start_monitoring ("spawn", "flag") or stop_monitoring ("join")
    sinceStop         \* history: a stop call began while no start call was in progress,
                      \* and no start call has begun since

monVars == <<filter_mode, filter_values, prev_states, monPc, current, events,
             batch, prevBefore, dropped, gapBefore, lastOp, elapsed>>
hubVars == <<event_queues, queue, subPc, lock, pubPc, message, pubI,
             dead_queues, msgSeq, subOrder, pubSnapshot, visitLog, evicted, expected>>
apiVars == <<clock, token, expires_at, backoff_until, rate_limit_remaining, apiPc,
             now, headers, call, rl429, grant, authLog>>
ctlVars == <<app, client, polling, stop_event, poll_thread, poll_interval,
             current_airport, threads, hpc, sinceStop>>
vars == <<monVars, hubVars, apiVars, ctlVars>>

\* Python's None.
NoneVal == "None"

\* The empty dict.
EmptyMap == [i \in {} |-> FALSE]

(***************************************************************************)
(* AircraftMonitor                                                         *)
(***************************************************************************)

\* Most states one process_states call is fed.
MaxBatch == 2

\* The most ticks of the clock the model follows after a call has read it.
MaxElapsed == 1

\* AircraftMonitor.FEET_TO_METERS = 0.3048, in units of 1/10000 m per foot.
FEET_TO_METERS == 3048

\* The default ceiling_ft of AircraftMonitor.__init__.
DefaultCeilingFt == 1500

\* self.ceiling_m (in 1/10000 m), for the default ceiling_ft.
ceiling_m == DefaultCeilingFt * FEET_TO_METERS

\* The transponder addresses of the model's traffic.
Icaos == {"a1b2c3", "d4e5f6"}

\* The callsign a state of each aircraft carries (None: the field is null).
CallsignOf(icao24) == IF icao24 = "a1b2c3" THEN "ual1" ELSE NoneVal

\* baro_altitude (1/10000 m) of the states of each aircraft: null (<<>>), exactly
\* the ceiling, just above the ceiling.
AltitudesOf(icao24) ==
    IF icao24 = "a1b2c3" THEN {<<ceiling_m>>, <<ceiling_m + 1>>}
    ELSE {<<>>, <<ceiling_m + 1>>}

\* The state dicts a batch is made of.
StateVectors ==
    UNION { { [icao24 |-> i, callsign |-> CallsignOf(i), on_ground |-> g,
               baro_altitude |-> a] : g \in BOOLEAN, a \in AltitudesOf(i) } : i \in Icaos }

\* web.py's ICAO24_TO_TYPE as handed to the monitor: icao24 (lower case) -> type code.
icao_to_type == [i \in {"a1b2c3"} |-> "b738"]

\* str.strip on the strings of the model.
Strip(s) == IF s = " a1b2c3 " THEN "a1b2c3" ELSE s

\* str.upper on the strings of the model.
Upper(s) ==
    CASE s = "a1b2c3" -> "A1B2C3"
      [] s = "d4e5f6" -> "D4E5F6"
      [] s = "ual1"   -> "UAL1"
      [] s = "b738"   -> "B738"
      [] s = "nosuch" -> "NOSUCH"
      [] s = "passenger" -> "PASSENGER"
      [] s = "n12345" -> "N12345"
      [] OTHER        -> s

\* str.lower on the strings of the model.
Lower(s) ==
    CASE s = "A1B2C3" -> "a1b2c3"
      [] s = "D4E5F6" -> "d4e5f6"
      [] s = "UAL1"   -> "ual1"
      [] s = "B738"   -> "b738"
      [] s = "NOSUCH" -> "nosuch"
      [] s = "PASSENGER" -> "passenger"
      [] s = "N12345" -> "n12345"
      [] OTHER        -> s

\* [v.strip().upper() for v in (filter_values or [])]; None is given as <<>>.
NormalizeValues(values) == [k \in 1..Len(values) |-> Upper(Strip(values[k]))]

\* The (filter_mode, filter_values) pairs set_filter is called with.
FilterInputs ==
    { [mode |-> NoneVal,      values |-> <<>>],
      [mode |-> "aircraft",   values |-> <<" a1b2c3 ">>],
      [mode |-> "aircraft",   values |-> <<"UAL1", "d4e5f6">>],
      [mode |-> "type_group", values |-> <<"b738">>],
      [mode |-> "callsign",   values |-> <<"d4e5f6">>] }

\* value in list
InList(x, list) == \E k \in 1..Len(list) : list[k] = x

\* (x or "")
OrEmpty(x) == IF x = NoneVal THEN "" ELSE x

\* A mutant of MatchesFilter: the identity filter compares the state's fields
\* as they are, without .upper().
MatchesFilterExactCase(mode, values, state) ==
    IF mode = NoneVal THEN TRUE
    ELSE IF mode = "aircraft" THEN
        \/ InList(OrEmpty(state.icao24), values)
        \/ InList(OrEmpty(state.callsign), values)
    ELSE IF mode = "type_group" THEN
        LET icao24 == Lower(OrEmpty(state.icao24)) IN
        IF icao24 \in DOMAIN icao_to_type
        THEN InList(Upper(icao_to_type[icao24]), values)
        ELSE FALSE
    ELSE TRUE

\* A mutant of MatchesFilter: a mode that is none of the three known ones
\* matches nothing.
MatchesFilterUnknownRejects(mode, values, state) ==
    IF mode = NoneVal THEN TRUE
    ELSE IF mode = "aircraft" THEN
        \/ InList(Upper(OrEmpty(state.icao24)), values)
        \/ InList(Upper(OrEmpty(state.callsign)), values)
    ELSE IF mode = "type_group" THEN
        LET icao24 == Lower(OrEmpty(state.icao24)) IN
        IF icao24 \in DOMAIN icao_to_type
        THEN InList(Upper(icao_to_type[icao24]), values)
        ELSE FALSE
    ELSE FALSE

\* AircraftMonitor._matches_filter
MatchesFilter(mode, values, state) ==
    IF mode = NoneVal THEN TRUE
    ELSE IF mode = "aircraft" THEN
        \/ InList(Upper(OrEmpty(state.icao24)), values)
        \/ InList(Upper(OrEmpty(state.callsign)), values)
    ELSE IF mode = "type_group" THEN
        LET icao24 == Lower(OrEmpty(state.icao24)) IN
        IF icao24 \in DOMAIN icao_to_type
        THEN InList(Upper(icao_to_type[icao24]), values)
        ELSE FALSE
    ELSE TRUE

\* A mutant of AboveCeiling: the comparison is dropped, nothing is over the ceiling.
AboveCeilingNever(alt) == FALSE

\* process_states' ceiling test: alt is not None and alt > self.ceiling_m
AboveCeiling(alt) == alt # <<>> /\ alt[1] > ceiling_m

\* A mutant of Classify: takeoff and landing are swapped.
ClassifySwapped(prev, icao24, on_ground) ==
    IF icao24 \in DOMAIN prev THEN
        IF prev[icao24] /\ ~on_ground THEN "landing"
        ELSE IF ~prev[icao24] /\ on_ground THEN "takeoff"
        ELSE "none"
    ELSE IF on_ground THEN "new_ground" ELSE "new_airborne"

\* A mutant of Classify: an untracked aircraft is taken to have been airborne
\* (self._prev_states.get(icao24, False)).
ClassifyDefaultAirborne(prev, icao24, on_ground) ==
    LET was_ground == IF icao24 \in DOMAIN prev THEN prev[icao24] ELSE FALSE IN
    IF was_ground /\ ~on_ground THEN "takeoff"
    ELSE IF ~was_ground /\ on_ground THEN "landing"
    ELSE "none"

\* The event type process_states appends for a surviving state ("none": no event).
Classify(prev, icao24, on_ground) ==
    IF icao24 \in DOMAIN prev THEN
        IF prev[icao24] /\ ~on_ground THEN "takeoff"
        ELSE IF ~prev[icao24] /\ on_ground THEN "landing"
        ELSE "none"
    ELSE IF on_ground THEN "new_ground" ELSE "new_airborne"

\* A mutant of Timestamp: the clock is read again for each event.
TimestampAtAppend(t) == t

\* The timestamp process_states hands to _make_event, t ticks after it read
\* the clock into `now`, as ticks after that reading: it hands `now` itself.
Timestamp(t) == 0

\* AircraftMonitor._make_event (the fields the detector's contract speaks of).
MakeEvent(event_type, state, timestamp) ==
    [type |-> event_type, icao24 |-> state.icao24, callsign |-> state.callsign,
     altitude_m |-> state.baro_altitude, on_ground |-> state.on_ground,
     timestamp |-> timestamp]

\* A mutant of DictSet: a key that is already there keeps its value
\* (d.setdefault(k, v)).
DictSetKeepFirst(d, k, v) == [x \in DOMAIN d \cup {k} |-> IF x \in DOMAIN d THEN d[x] ELSE v]

\* dict d after d[k] = v
DictSet(d, k, v) == [x \in DOMAIN d \cup {k} |-> IF x = k THEN v ELSE d[x]]

\* A mutant of NextPrevStates: the new mapping is merged into the old one
\* (self._prev_states.update(current)).
NextPrevStatesMerged(prev, cur) ==
    [x \in DOMAIN prev \cup DOMAIN cur |-> IF x \in DOMAIN cur THEN cur[x] ELSE prev[x]]

\* self._prev_states = current
NextPrevStates(prev, cur) == cur

MonInit ==
    /\ filter_mode = NoneVal
    /\ filter_values = <<>>
    /\ prev_states = EmptyMap
    /\ monPc = "idle"
    /\ current = EmptyMap
    /\ events = <<>>
    /\ batch = <<>>
    /\ prevBefore = EmptyMap
    /\ dropped = [i \in Icaos |-> "no"]
    /\ gapBefore = [i \in Icaos |-> "no"]
    /\ lastOp = "init"
    /\ elapsed = 0

\* AircraftMonitor.set_filter
SetFilter(f) ==
    /\ monPc = "idle"
    /\ filter_mode' = f.mode
    /\ filter_values' = NormalizeValues(f.values)
    /\ lastOp' = "set_filter"
    /\ current' = EmptyMap /\ events' = <<>> /\ batch' = <<>> /\ prevBefore' = EmptyMap
    /\ elapsed' = 0
    /\ UNCHANGED <<prev_states, monPc, dropped, gapBefore>>
    /\ UNCHANGED <<hubVars, apiVars, ctlVars>>

\* A mutant of Reset: the filter is cleared along with the tracked states.
ResetClearsFilter ==
    /\ monPc = "idle"
    /\ prev_states' = EmptyMap
    /\ filter_mode' = NoneVal
    /\ filter_values' = <<>>
    /\ lastOp' = "reset"
    /\ current' = EmptyMap /\ events' = <<>> /\ batch' = <<>> /\ prevBefore' = prev_states
    /\ elapsed' = 0
    /\ UNCHANGED <<monPc, dropped, gapBefore>>
    /\ UNCHANGED <<hubVars, apiVars, ctlVars>>

\* AircraftMonitor.reset (prevBefore keeps what was tracked until then)
Reset ==
    /\ monPc = "idle"
    /\ prev_states' = EmptyMap
    /\ lastOp' = "reset"
    /\ current' = EmptyMap /\ events' = <<>> /\ batch' = <<>> /\ prevBefore' = prev_states
    /\ elapsed' = 0
    /\ UNCHANGED <<filter_mode, filter_values, monPc, dropped, gapBefore>>
    /\ UNCHANGED <<hubVars, apiVars, ctlVars>>

\* The clock ticks while process_states runs.
ClockTick ==
    /\ monPc = "loop"
    /\ elapsed < MaxElapsed
    /\ elapsed' = elapsed + 1
    /\ UNCHANGED <<filter_mode, filter_values, prev_states, monPc, current, events, batch,
                   prevBefore, dropped, gapBefore, lastOp>>
    /\ UNCHANGED <<hubVars, apiVars, ctlVars>>

\* process_states, up to its for loop: events = [], now = datetime.now(utc),
\* current = {}
ProcessStatesBegin ==
    /\ monPc = "idle"
    /\ monPc' = "loop"
    /\ events' = <<>>
    /\ elapsed' = 0
    /\ current' = EmptyMap
    /\ batch' = <<>>
    /\ prevBefore' = prev_states
    /\ gapBefore' = dropped
    /\ UNCHANGED <<filter_mode, filter_values, prev_states, dropped, lastOp>>
    /\ UNCHANGED <<hubVars, apiVars, ctlVars>>

\* One iteration of process_states' for loop, over the next state of the batch.
ProcessStatesStep(state) ==
    /\ monPc = "loop"
    /\ Len(batch) < MaxBatch
    /\ batch' = Append(batch, state)
    /\ IF ~MatchesFilter(filter_mode, filter_values, state)
       THEN UNCHANGED <<current, events>>
       ELSE IF AboveCeiling(state.baro_altitude)
       THEN UNCHANGED <<current, events>>
       ELSE LET etype == Classify(prev_states, state.icao24, state.on_ground) IN
            /\ current' = DictSet(current, state.icao24, state.on_ground)
            /\ events' = IF etype = "none" THEN events
                         ELSE Append(events, MakeEvent(etype, state, Timestamp(elapsed)))
    /\ UNCHANGED <<filter_mode, filter_values, prev_states, monPc, prevBefore,
                   dropped, gapBefore, lastOp, elapsed>>
    /\ UNCHANGED <<hubVars, apiVars, ctlVars>>

\* process_states after its for loop: self._prev_states = current; return events
ProcessStatesEnd ==
    /\ monPc = "loop"
    /\ prev_states' = NextPrevStates(prev_states, current)
    /\ monPc' = "idle"
    /\ lastOp' = "process_states"
    /\ dropped' = [i \in Icaos |->
                     IF i \in DOMAIN current THEN "no"
                     ELSE IF i \in DOMAIN prev_states
                     THEN (IF prev_states[i] THEN "ground" ELSE "airborne")
                     ELSE dropped[i]]
    /\ UNCHANGED <<filter_mode, filter_values, current, events, batch, prevBefore,
                   gapBefore, elapsed>>
    /\ UNCHANGED <<hubVars, apiVars, ctlVars>>

MonNext ==
    \/ ClockTick
    \/ \E f \in FilterInputs : SetFilter(f)
    \/ Reset
    \/ ProcessStatesBegin
    \/ \E s \in StateVectors : ProcessStatesStep(s)
    \/ ProcessStatesEnd

(***************************************************************************)
(* BroadcastHub                                                            *)
(***************************************************************************)

\* The /api/stream connections of the model, each with the queue it creates.
Subscribers == {"q1", "q2"}

\* queue.Queue(maxsize=50)
QUEUE_MAXSIZE == 50

\* Messages are told apart by the number of the publish that built them, modulo this.
MsgWrap == 2

HubInit ==
    /\ event_queues = <<>>
    /\ queue = [s \in Subscribers |-> <<>>]
    /\ subPc = [s \in Subscribers |-> "new"]
    /\ lock = "free"
    /\ pubPc = "idle"
    /\ message = 0
    /\ pubI = 1
    /\ dead_queues = <<>>
    /\ msgSeq = 0
    /\ subOrder = <<>>
    /\ pubSnapshot = <<>>
    /\ visitLog = <<>>
    /\ evicted = {}
    /\ expected = [s \in Subscribers |-> 0]

\* list.remove(x): the list without its first x.
RECURSIVE ListRemove(_, _)
ListRemove(list, x) ==
    IF list = <<>> THEN <<>>
    ELSE IF Head(list) = x THEN Tail(list)
    ELSE <<Head(list)>> \o ListRemove(Tail(list), x)

\* A mutant of RemoveDead: the dead queues are left in the list.
RemoveDeadNothing(list, dead) == list

\* for q in dead_queues: self._event_queues.remove(q)
RECURSIVE RemoveDead(_, _)
RemoveDead(list, dead) ==
    IF dead = <<>> THEN list
    ELSE RemoveDead(ListRemove(list, Head(dead)), Tail(dead))

\* A mutant of Full: the queue is unbounded (queue.Queue()).
FullNever(content) == FALSE

\* queue.Queue.put_nowait raises queue.Full: the queue holds maxsize items.
Full(content) == Len(content) >= QUEUE_MAXSIZE

\* A mutant of PutWaits: q.put(message), which waits for a free slot.
PutWaitsWhenFull(content) == Len(content) >= QUEUE_MAXSIZE

\* Whether the enqueue of _broadcast_event has to wait on this queue: put_nowait never waits.
PutWaits(content) == FALSE

\* A mutant of AfterGet: the newest message is taken (a LIFO queue).
AfterGetNewest(content) == SubSeq(content, 1, Len(content) - 1)

\* queue.Queue.get on a queue that is not empty: what is left once the oldest
\* message has been taken.
AfterGet(content) == Tail(content)

\* A mutant of Unlist: the closing stream leaves its queue in the list.
UnlistNothing(list, q) == list

\* if q in self._event_queues: self._event_queues.remove(q)
Unlist(list, q) == IF InList(q, list) THEN ListRemove(list, q) ELSE list

\* A mutant of CanAcquire: the list is used without the lock.
CanAcquireAlways(l) == TRUE

\* `with self._queues_lock:` is entered: the lock is free (a thread that finds
\* it held waits).
CanAcquire(l) == l = "free"

\* The histories of a publish are kept until the hub is next used after it returned.
ForgetPublish ==
    IF pubPc = "idle"
    THEN visitLog' = <<>> /\ pubSnapshot' = <<>>
    ELSE UNCHANGED <<visitLog, pubSnapshot>>

\* event_stream up to its loop: q = queue.Queue(maxsize=50); with the lock, append it.
Subscribe(s) ==
    /\ subPc[s] = "new"
    /\ CanAcquire(lock)
    /\ subPc' = [subPc EXCEPT ![s] = "streaming"]
    /\ queue' = [queue EXCEPT ![s] = <<>>]
    /\ event_queues' = Append(event_queues, s)
    /\ subOrder' = Append(subOrder, s)
    /\ expected' = [expected EXCEPT ![s] = msgSeq]
    /\ ForgetPublish
    /\ UNCHANGED <<lock, pubPc, message, pubI, dead_queues, msgSeq, evicted>>
    /\ UNCHANGED <<monVars, apiVars, ctlVars>>

\* event_stream's loop: q.get(timeout=30) returns a message, which is yielded.
\* (On queue.Empty a keepalive is yielded and nothing changes.)
Get(s) ==
    /\ subPc[s] = "streaming"
    /\ queue[s] # <<>>
    /\ queue' = [queue EXCEPT ![s] = AfterGet(queue[s])]
    /\ expected' = [expected EXCEPT ![s] = (@ + 1) % MsgWrap]
    /\ ForgetPublish
    /\ UNCHANGED <<event_queues, subPc, lock, pubPc, message, pubI, dead_queues,
                   msgSeq, subOrder, evicted>>
    /\ UNCHANGED <<monVars, apiVars, ctlVars>>

\* event_stream is closed at a yield: finally, with the lock, remove q if it is listed.
Close(s) ==
    /\ subPc[s] = "streaming"
    /\ CanAcquire(lock)
    /\ subPc' = [subPc EXCEPT ![s] = "closed"]
    /\ event_queues' = Unlist(event_queues, s)
    /\ queue' = [queue EXCEPT ![s] = <<>>]
    /\ expected' = [expected EXCEPT ![s] = 0]
    /\ ForgetPublish
    /\ UNCHANGED <<lock, pubPc, message, pubI, dead_queues, msgSeq, subOrder, evicted>>
    /\ UNCHANGED <<monVars, apiVars, ctlVars>>

\* _broadcast_event: build the message, take the lock, dead_queues = [].
BroadcastBegin ==
    /\ pubPc = "idle"
    /\ CanAcquire(lock)
    /\ message' = msgSeq
    /\ msgSeq' = (msgSeq + 1) % MsgWrap
    /\ lock' = "publisher"
    /\ dead_queues' = <<>>
    /\ pubI' = 1
    /\ pubPc' = "loop"
    /\ pubSnapshot' = event_queues
    /\ visitLog' = <<>>
    /\ UNCHANGED <<event_queues, queue, subPc, subOrder, evicted, expected>>
    /\ UNCHANGED <<monVars, apiVars, ctlVars>>

\* One iteration of `for q in self._event_queues`: q.put_nowait(message), or on
\* queue.Full dead_queues.append(q).
PutNowait ==
    /\ pubPc = "loop"
    /\ pubI <= Len(event_queues)
    /\ LET q == event_queues[pubI] IN
        /\ ~PutWaits(queue[q])
        /\ IF Full(queue[q])
           THEN /\ dead_queues' = Append(dead_queues, q)
                /\ queue' = queue
           ELSE /\ queue' = [queue EXCEPT ![q] = Append(queue[q], message)]
                /\ dead_queues' = dead_queues
        /\ visitLog' = Append(visitLog,
                              [q |-> q, wasFull |-> Len(queue[q]) >= 50,
                               put |-> queue'[q] # queue[q],
                               msg |-> IF queue'[q] # queue[q]
                                       THEN queue'[q][Len(queue'[q])] ELSE message])
    /\ pubI' = pubI + 1
    /\ UNCHANGED <<event_queues, subPc, lock, pubPc, message, msgSeq, subOrder,
                   pubSnapshot, evicted, expected>>
    /\ UNCHANGED <<monVars, apiVars, ctlVars>>

\* _broadcast_event after the loop: remove the dead queues, release the lock, return.
BroadcastEnd ==
    /\ pubPc = "loop"
    /\ pubI > Len(event_queues)
    /\ event_queues' = RemoveDead(event_queues, dead_queues)
    /\ evicted' = evicted \cup {q \in Subscribers : InList(q, event_queues)
                                                    /\ ~InList(q, event_queues')}
    /\ lock' = "free"
    /\ pubPc' = "idle"
    /\ pubI' = 1
    /\ dead_queues' = <<>>
    /\ UNCHANGED <<queue, subPc, message, msgSeq, subOrder, pubSnapshot, visitLog,
                   expected>>
    /\ UNCHANGED <<monVars, apiVars, ctlVars>>

\* The steps of a publish in progress.
PublisherStep == PutNowait \/ BroadcastEnd

HubNext ==
    \/ \E s \in Subscribers : Subscribe(s)
    \/ \E s \in Subscribers : Get(s)
    \/ \E s \in Subscribers : Close(s)
    \/ BroadcastBegin
    \/ PutNowait
    \/ BroadcastEnd

(***************************************************************************)
(* OpenSkyClient.get_states over OpenSkyAuth                               *)
(***************************************************************************)

\* The last second of the model's clock.
MaxClock == 12

\* data.get("expires_in", 1800)
DefaultExpiresIn == 1800

\* "Refresh 60 seconds before actual expiry"
ExpiryMargin == 60

\* resp.headers.get("Retry-After", 10)
DefaultRetryAfter == 10

\* int(header value) on the header values of the model.
ParseInt(text) ==
    CASE text = "5" -> 5
      [] text = "7" -> 7

\* Retry-After of a 429: absent, a number of seconds, not a number.
RetryAfterHeaders == {"absent", "5", "bad"}

\* X-Rate-Limit-Remaining of a response: absent, a number, not a number.
RateLimitHeaders == {"absent", "7", "bad"}

\* The body of a 200: a states array, "states": null, not JSON, JSON that is no object.
Bodies == {"states", "null_states", "bad_json", "not_object"}

\* What requests.get(STATES_URL, ...) can come back with: a RequestException
\* (timeout, connection error), or a response.
StateReplies ==
    {[kind |-> "exc", status |-> 0, retry_after |-> "absent", rl |-> "absent", body |-> "none"]}
    \cup {[kind |-> "http", status |-> 429, retry_after |-> ra, rl |-> rl, body |-> "none"] :
            ra \in RetryAfterHeaders, rl \in RateLimitHeaders}
    \cup {[kind |-> "http", status |-> 200, retry_after |-> "absent", rl |-> rl, body |-> b] :
            rl \in RateLimitHeaders, b \in Bodies}
    \cup {[kind |-> "http", status |-> st, retry_after |-> "absent", rl |-> rl, body |-> "none"] :
            st \in {401, 500}, rl \in RateLimitHeaders}

\* What the token endpoint can come back with: a token (expires_in absent, 70 or
\* 20 seconds), a RequestException (network or HTTP error), or a 200 whose JSON
\* has no access_token.
AuthReplies ==
    {[kind |-> "ok", expires_in |-> e] : e \in {<<>>, <<70>>, <<20>>}}
    \cup {[kind |-> "fail", expires_in |-> <<>>], [kind |-> "no_token", expires_in |-> <<>>]}

\* The lifetime in seconds the token endpoint granted: expires_in, which
\* authenticate reads as 1800 when the reply does not state it.
Lifetime(a) == IF a.expires_in = <<>> THEN 1800 ELSE a.expires_in[1]

\* The real lifetime left at time t of the token granted by g (0 if none was).
LeftOf(g, t) == IF g = <<>> THEN 0 ELSE g[1].at + g[1].expires_in - t

\* A mutant of AuthResult: a failed authentication keeps the token it held.
AuthResultKeepsToken(a, tok, exp, t) ==
    IF a.kind = "ok" THEN
        [token |-> <<t>>, expires_at |-> t + Lifetime(a) - 60, raised |-> FALSE]
    ELSE [token |-> tok, expires_at |-> exp, raised |-> a.kind = "no_token"]

\* OpenSkyAuth.authenticate: the token, its expiry and whether an exception other
\* than RequestException (the KeyError of data["access_token"]) leaves the call.
AuthResult(a, tok, exp, t) ==
    IF a.kind = "ok" THEN
        [token |-> <<t>>,
         expires_at |-> t + (IF a.expires_in = <<>> THEN DefaultExpiresIn
                             ELSE a.expires_in[1]) - ExpiryMargin,
         raised |-> FALSE]
    ELSE IF a.kind = "fail" THEN [token |-> <<>>, expires_at |-> exp, raised |-> FALSE]
    ELSE [token |-> tok, expires_at |-> exp, raised |-> TRUE]

\* A mutant of NeedsAuth: only a missing token is renewed.
NeedsAuthMissingOnly(tok, exp, t) == tok = <<>>

\* A mutant of NeedsAuth: only a token that is held and expired is renewed; a
\* missing one is not asked for.
NeedsAuthExpiredOnly(tok, exp, t) == tok # <<>> /\ t >= exp

\* OpenSkyAuth.ensure_valid's test: self._token is None or self.is_expired
NeedsAuth(tok, exp, t) == tok = <<>> \/ t >= exp

\* A mutant of TokenRequests: a failed token request is sent once more.
TokenRequestsRetrying(need, a) == IF ~need THEN 0 ELSE IF a.kind = "fail" THEN 2 ELSE 1

\* The token requests one ensure_valid sends when the token endpoint answers
\* a: none when the token is held and fresh, else the one requests.post of
\* authenticate, whose outcome ensure_valid returns without trying again.
TokenRequests(need, a) == IF need THEN 1 ELSE 0

\* A mutant of InBackoff: the window is taken to end one second early.
InBackoffEndsEarly(t, deadline) == t + 1 < deadline

\* A mutant of InBackoff: the backoff deadline is not consulted.
InBackoffNever(t, deadline) == FALSE

\* get_states' first test: now < self._backoff_until
InBackoff(t, deadline) == t < deadline

\* A mutant of BackoffDeadline: the deadline counts from the call's `now`.
BackoffDeadlineFromNow(now0, t, retry_after) == now0 + retry_after

\* self._backoff_until = time.time() + retry_after
BackoffDeadline(now0, t, retry_after) == t + retry_after

\* The failed token requests in a row, n of them so far, once the token
\* endpoint has answered a.
FailuresAfter(n, a) == IF a.kind # "fail" THEN 0 ELSE IF n < 2 THEN n + 1 ELSE n

\* The history of a call that has just begun.
NewCall ==
    [inWindow |-> FALSE, stateReqs |-> 0, tokenReqs |-> 0, got401 |-> FALSE,
     reauths |-> 0, first429 |-> FALSE, retryFailed |-> FALSE, result |-> "running",
     failures |-> 0, retry429 |-> "no"]

ApiInit ==
    /\ clock = 0
    /\ token = <<>>
    /\ expires_at = 0
    /\ backoff_until = 0
    /\ rate_limit_remaining = <<>>
    /\ apiPc = "idle"
    /\ now = 0
    /\ headers = <<>>
    /\ call = [NewCall EXCEPT !.result = "none"]
    /\ rl429 = <<>>
    /\ grant = <<>>
    /\ authLog = <<>>

\* The call returns or raises: its locals are gone.
Finish(result, c) ==
    /\ apiPc' = "idle"
    /\ now' = 0
    /\ headers' = <<>>
    /\ call' = [c EXCEPT !.result = result]

\* Time passes.
Tick ==
    /\ clock < MaxClock
    /\ clock' = clock + 1
    /\ authLog' = <<>>
    /\ UNCHANGED <<token, expires_at, backoff_until, rate_limit_remaining, apiPc, now,
                   headers, call, rl429, grant>>
    /\ UNCHANGED <<monVars, hubVars, ctlVars>>

\* get_states up to its parameters: now = time.time(); inside the backoff
\* window return [].
GetStatesBegin ==
    /\ apiPc = "idle"
    /\ LET c == [NewCall EXCEPT
                    !.inWindow = rl429 # <<>> /\ clock < rl429[1].at + rl429[1].n,
                    !.failures = call.failures]
       IN IF InBackoff(clock, backoff_until)
          THEN Finish("empty", c)
          ELSE /\ apiPc' = "headers1"
               /\ now' = clock
               /\ headers' = <<>>
               /\ call' = c
    /\ authLog' = <<>>
    /\ UNCHANGED <<clock, token, expires_at, backoff_until, rate_limit_remaining, rl429,
                   grant>>
    /\ UNCHANGED <<monVars, hubVars, ctlVars>>

\* headers = self.auth.get_headers(): ensure_valid, which authenticates when the
\* token is missing or expired, then the Authorization header if a token is held.
GetHeaders(a) ==
    /\ apiPc \in {"headers1", "headers2"}
    /\ LET need == NeedsAuth(token, expires_at, clock)
           res == IF need THEN AuthResult(a, token, expires_at, clock)
                  ELSE [token |-> token, expires_at |-> expires_at, raised |-> FALSE]
           c == [call EXCEPT
                    !.tokenReqs = @ + TokenRequests(need, a),
                    !.failures = IF need THEN FailuresAfter(@, a) ELSE @,
                    !.reauths = @ + (IF need /\ apiPc = "headers2" THEN 1 ELSE 0)]
           g == IF need /\ a.kind = "ok"
                THEN <<[at |-> clock, expires_in |-> Lifetime(a)]>> ELSE grant
       IN /\ token' = res.token
          /\ expires_at' = res.expires_at
          /\ grant' = g
          /\ authLog' = <<[by |-> "get_headers",
                           held |-> token # <<>>,
                           reply |-> IF need THEN a.kind ELSE "none"]>>
          /\ IF res.raised
             THEN Finish("raised", c)
             ELSE /\ apiPc' = IF apiPc = "headers1" THEN "request" ELSE "retry"
                  /\ headers' = res.token
                  /\ call' = c
                  /\ now' = now
    /\ UNCHANGED <<clock, backoff_until, rate_limit_remaining, rl429>>
    /\ UNCHANGED <<monVars, hubVars, ctlVars>>

\* resp.raise_for_status(); data = resp.json(); data.get("states") or []: the
\* results the call can end with ("empty": [], also for a RequestException).
\* Whether a body that is not JSON raises a RequestException depends on the
\* version of requests, so either result is possible.
ResultsOf(r) ==
    IF r.kind = "exc" \/ r.status # 200 THEN {"empty"}
    ELSE IF r.body = "states" THEN {"states"}
    ELSE IF r.body = "null_states" THEN {"empty"}
    ELSE IF r.body = "bad_json" THEN {"empty", "raised"}
    ELSE {"raised"}

\* get_states from requests.get to the 401 test (api.py:81-95), then
\* raise_for_status and the parse.
Respond(r) ==
    /\ apiPc = "request"
    /\ LET c == [call EXCEPT !.stateReqs = @ + 1] IN
       IF r.kind = "exc" THEN
            /\ Finish("empty", c)
            /\ UNCHANGED <<rate_limit_remaining, backoff_until, rl429>>
       ELSE IF r.rl = "bad" THEN
            /\ Finish("raised", c)
            /\ UNCHANGED <<rate_limit_remaining, backoff_until, rl429>>
       ELSE
            /\ rate_limit_remaining' = IF r.rl = "absent" THEN rate_limit_remaining
                                       ELSE <<ParseInt(r.rl)>>
            /\ IF r.status = 429 THEN
                    IF r.retry_after = "bad" THEN
                        /\ Finish("raised", c)
                        /\ UNCHANGED <<backoff_until, rl429>>
                    ELSE
                        LET retry_after == IF r.retry_after = "absent"
                                           THEN DefaultRetryAfter
                                           ELSE ParseInt(r.retry_after)
                        IN /\ backoff_until' = BackoffDeadline(now, clock, retry_after)
                           /\ rl429' = <<[at |-> clock, n |-> retry_after, hdr |-> r.retry_after]>>
                           /\ Finish("empty", [c EXCEPT !.first429 = TRUE])
               ELSE IF r.status = 401 THEN
                    /\ apiPc' = "reauth"
                    /\ call' = [c EXCEPT !.got401 = TRUE]
                    /\ UNCHANGED <<now, headers, backoff_until, rl429>>
               ELSE /\ \E res \in ResultsOf(r) : Finish(res, c)
                    /\ UNCHANGED <<backoff_until, rl429>>
    /\ authLog' = <<>>
    /\ UNCHANGED <<clock, token, expires_at, grant>>
    /\ UNCHANGED <<monVars, hubVars, ctlVars>>

\* On a 401: self.auth.authenticate()
ForcedAuth(a) ==
    /\ apiPc = "reauth"
    /\ LET res == AuthResult(a, token, expires_at, clock)
           c == [call EXCEPT !.tokenReqs = @ + 1, !.reauths = @ + 1,
                             !.failures = FailuresAfter(@, a)]
       IN /\ token' = res.token
          /\ expires_at' = res.expires_at
          /\ grant' = IF a.kind = "ok"
                      THEN <<[at |-> clock, expires_in |-> Lifetime(a)]>> ELSE grant
          /\ authLog' = <<[by |-> "authenticate",
                           held |-> token # <<>>,
                           reply |-> a.kind]>>
          /\ IF res.raised
             THEN Finish("raised", c)
             ELSE /\ apiPc' = "headers2"
                  /\ call' = c
                  /\ UNCHANGED <<now, headers>>
    /\ UNCHANGED <<clock, backoff_until, rate_limit_remaining, rl429>>
    /\ UNCHANGED <<monVars, hubVars, ctlVars>>

\* The retry after a 401: requests.get again, then raise_for_status and the parse.
RetryRespond(r) ==
    /\ apiPc = "retry"
    /\ \E res \in ResultsOf(r) :
            Finish(res, [call EXCEPT !.stateReqs = @ + 1,
                                     !.retryFailed = r.kind = "exc" \/ r.status # 200,
                                     !.retry429 = IF r.kind = "http" /\ r.status = 429
                                                  THEN r.retry_after ELSE "no"])
    /\ authLog' = <<>>
    /\ UNCHANGED <<clock, token, expires_at, backoff_until, rate_limit_remaining, rl429,
                   grant>>
    /\ UNCHANGED <<monVars, hubVars, ctlVars>>

ApiNext ==
    \/ Tick
    \/ GetStatesBegin
    \/ \E a \in AuthReplies : GetHeaders(a)
    \/ \E r \in StateReplies : Respond(r)
    \/ \E a \in AuthReplies : ForcedAuth(a)
    \/ \E r \in StateReplies : RetryRespond(r)

(***************************************************************************)
(* The poll controller: GlycolWebApp (web.py) and GlycolApp (ui.py)        *)
(***************************************************************************)

\* The most poll-loop threads a run creates.
MaxThreads == 2

Threads == 1..MaxThreads

\* The web requests that can be in progress at once (Flask runs threaded).
Handlers == {"h1", "h2"}

\* self.poll_interval of GlycolWebApp.__init__
WebPollInterval == 10

\* poll_interval of GlycolApp.__init__ and run_app, the initial poll_var
UiPollInterval == 30

\* The codes of airports.AIRPORTS the model uses.
KnownAirports == {"KSFO", "KJFK", "KLAX"}

\* airports.get_bounding_box(code): <<>> for None, else the box (named by its airport).
BoundingBox(code) == IF code \in KnownAirports THEN <<code>> ELSE <<>>

\* What a start is asked for: the JSON of POST /api/start, or the widgets of the
\* desktop window when Start is clicked (airport, mode, the tokens of the
\* filter entry as _parse_filter_values splits them, the interval of the web
\* request).
StartRequests ==
    { [airport |-> "KSFO", interval |-> 10, mode |-> "all",      values |-> <<>>],
      [airport |-> "KJFK", interval |-> 5,  mode |-> "aircraft", values |-> <<"UAL1", "d4e5f6">>],
      [airport |-> "KLAX", interval |-> 10, mode |-> "type_group", values |-> <<"nosuch">>],
      [airport |-> "ZZZZ", interval |-> 5,  mode |-> "all",      values |-> <<>>],
      [airport |-> "",     interval |-> 5,  mode |-> "all",      values |-> <<>>] }

\* The groups of the type-group database (GroupsDatabase.groups): name -> type codes.
TypeGroups == [g \in {"passenger"} |-> <<"b738">>]

\* aircraft.REG_TO_ICAO24: registration (upper case) -> icao24.
REG_TO_ICAO24 == [g \in {"N12345"} |-> "a1b2c3"]

\* ui._ICAO24_RE (six hexadecimal digits) on the strings of the model.
IsIcao24(t) == t \in {"a1b2c3", "d4e5f6", "A1B2C3", "D4E5F6"}

\* GlycolApp._dedupe_preserve_order
RECURSIVE DedupePreserveOrder(_)
DedupePreserveOrder(values) ==
    IF values = <<>> THEN <<>>
    ELSE LET front == DedupePreserveOrder(SubSeq(values, 1, Len(values) - 1))
             v == values[Len(values)]
         IN  IF InList(v, front) THEN front ELSE Append(front, v)

\* GlycolApp._resolve_group_filter before the dedupe: a token that names a
\* group becomes the group's type codes in upper case, any other token is
\* taken to be a type code and kept.
RECURSIVE GroupTypeCodes(_)
GroupTypeCodes(raw_values) ==
    IF raw_values = <<>> THEN <<>>
    ELSE LET value_upper == Upper(Strip(raw_values[1]))
             rest == GroupTypeCodes(Tail(raw_values))
             name == Lower(value_upper)
         IN  IF value_upper = "" THEN rest
             ELSE IF name \in DOMAIN TypeGroups /\ TypeGroups[name] # <<>>
                  THEN [k \in 1..Len(TypeGroups[name]) |-> Upper(TypeGroups[name][k])] \o rest
                  ELSE <<value_upper>> \o rest

\* GlycolApp._resolve_group_filter
ResolveGroupFilter(raw_values) == DedupePreserveOrder(GroupTypeCodes(raw_values))

\* The monitor_values of GlycolApp._resolve_aircraft_filter before the dedupe:
\* an ICAO24 address in lower case; else the token in upper case, followed by
\* the address of the registration it names or, when it names none, by itself
\* as a callsign.
RECURSIVE AircraftMonitorValues(_)
AircraftMonitorValues(raw_values) ==
    IF raw_values = <<>> THEN <<>>
    ELSE LET t == Strip(raw_values[1])
             reg == Upper(t)
             rest == AircraftMonitorValues(Tail(raw_values))
         IN  IF t = "" THEN rest
             ELSE IF IsIcao24(t) THEN <<Lower(t)>> \o rest
             ELSE IF reg \in DOMAIN REG_TO_ICAO24
                  THEN <<reg, Lower(REG_TO_ICAO24[reg])>> \o rest
                  ELSE <<reg, reg>> \o rest

\* The monitor filter of GlycolApp._resolve_aircraft_filter (its second result).
ResolveAircraftFilter(raw_values) == DedupePreserveOrder(AircraftMonitorValues(raw_values))

\* filt_for_monitor of GlycolApp._start_polling.
UiFilterValues(mode, raw_filt) ==
    IF mode = "aircraft" THEN ResolveAircraftFilter(raw_filt)
    ELSE IF mode = "type_group" THEN ResolveGroupFilter(raw_filt)
    ELSE raw_filt

\* The filter mode a start hands to set_filter: web.py turns "all" into None,
\* ui.py's display_to_mode maps "All Traffic" to None.
StartFilterMode(mode) == IF mode = "all" THEN NoneVal ELSE mode

\* A mutant of EventClear: the event stays as it is.
EventClearNothing(ev) == ev

\* threading.Event.clear()
EventClear(ev) == FALSE

\* A mutant of AfterException: an exception ends the loop.
AfterExceptionExit(a) == "done"

\* Where _poll_loop goes once its except clause has reported an exception:
\* web.py sleeps 5 s (time.sleep(5)), ui.py falls through to the wait that
\* ends every cycle.
AfterException(a) == IF a = "web" THEN "errsleep" ELSE "sleep"

\* Whether a sleep of _poll_loop returns as soon as the stop event is set:
\* ui.py waits on the event (self._stop_event.wait), web.py calls time.sleep.
Cancellable(a) == a = "ui"

\* What client.get_states gives the loop: [], a list of states, or an exception.
FetchOutcomes == {"empty", "states", "raised"}

\* A thread that has not been created.
Unborn == [pc |-> "unborn", airport |-> "", states |-> "none", failed |-> FALSE,
           exit |-> "none"]

\* The threads that have been started, and those still in their loop.
Started == {l \in Threads : threads[l].pc # "unborn"}
Alive == {l \in Threads : threads[l].pc \notin {"unborn", "done"}}

\* The thread the next threading.Thread(...) creates.
NewThread == CHOOSE l \in Threads : threads[l].pc = "unborn" /\ \A k \in 1..(l - 1) : k \in Started

\* A further thread can be created within MaxThreads.
CanSpawn == Cardinality(Started) + Cardinality({h \in Handlers : hpc[h] = "spawn"}) < MaxThreads

CtlInit ==
    /\ app = "none"
    /\ client = FALSE
    /\ polling = FALSE
    /\ stop_event = FALSE
    /\ poll_thread = 0
    /\ poll_interval = 0
    /\ current_airport = ""
    /\ threads = [l \in Threads |-> Unborn]
    /\ hpc = [h \in Handlers |-> "idle"]
    /\ sinceStop = FALSE

\* The monitor's variables a controller never touches.
monLocals == <<monPc, current, events, batch, prevBefore, dropped, gapBefore, elapsed>>

\* run_web_app: GlycolWebApp.__init__, whose _authenticate sets self.client if
\* credentials are found and accepted.
RunWebApp(authenticated) ==
    /\ app = "none"
    /\ app' = "web"
    /\ client' = authenticated
    /\ poll_interval' = WebPollInterval
    /\ UNCHANGED <<polling, stop_event, poll_thread, current_airport, threads, hpc, sinceStop>>
    /\ UNCHANGED <<monVars, hubVars, apiVars>>

\* run_app: GlycolApp.__init__; the client is set later by _do_auth.
RunApp ==
    /\ app = "none"
    /\ app' = "ui"
    /\ poll_interval' = UiPollInterval
    /\ UNCHANGED <<client, polling, stop_event, poll_thread, current_airport, threads, hpc,
                   sinceStop>>
    /\ UNCHANGED <<monVars, hubVars, apiVars>>

\* GlycolApp._do_auth, when authenticate succeeds: self.client = OpenSkyClient(...)
UiDoAuth ==
    /\ app = "ui"
    /\ ~client
    /\ client' = TRUE
    /\ UNCHANGED <<app, polling, stop_event, poll_thread, poll_interval, current_airport,
                   threads, hpc, sinceStop>>
    /\ UNCHANGED <<monVars, hubVars, apiVars>>

\* The user edits the interval spinbox (self.poll_var), which _poll_loop reads
\* at each wait.
UiSetPollVar(n) ==
    /\ app = "ui"
    /\ poll_interval # n
    /\ poll_interval' = n
    /\ UNCHANGED <<app, client, polling, stop_event, poll_thread, current_airport, threads,
                   hpc, sinceStop>>
    /\ UNCHANGED <<monVars, hubVars, apiVars>>

\* start_monitoring (POST /api/start) up to its test of self._polling: the
\* interval is stored first, then the request is refused without an airport
\* (400) or without a client (401), else the filter and the airport are stored.
WebStartBegin(h, r) ==
    /\ app = "web"
    /\ hpc[h] = "idle"
    /\ (r.airport # "" /\ client /\ ~polling) => CanSpawn
    /\ poll_interval' = r.interval
    /\ sinceStop' = FALSE
    /\ IF r.airport = "" \/ ~client
       THEN UNCHANGED <<filter_mode, filter_values, lastOp, current_airport, hpc>>
       ELSE /\ filter_mode' = StartFilterMode(r.mode)
            /\ filter_values' = NormalizeValues(r.values)
            /\ lastOp' = "set_filter"
            /\ current_airport' = r.airport
            /\ hpc' = [hpc EXCEPT ![h] = IF polling THEN "idle" ELSE "spawn"]
    /\ UNCHANGED <<app, client, polling, stop_event, poll_thread, threads>>
    /\ UNCHANGED <<prev_states, monLocals, hubVars, apiVars>>

\* start_monitoring, self._polling found false: self._stop_event.clear(), then
\* the thread is created and started.
WebStartThread(h) ==
    /\ hpc[h] = "spawn"
    /\ stop_event' = EventClear(stop_event)
    /\ threads' = [threads EXCEPT ![NewThread] = [Unborn EXCEPT !.pc = "test"]]
    /\ poll_thread' = NewThread
    /\ hpc' = [hpc EXCEPT ![h] = "flag"]
    /\ UNCHANGED <<app, client, polling, poll_interval, current_airport, sinceStop>>
    /\ UNCHANGED <<monVars, hubVars, apiVars>>

\* start_monitoring: self._polling = True, and the reply.
WebStartEnd(h) ==
    /\ hpc[h] = "flag"
    /\ polling' = TRUE
    /\ hpc' = [hpc EXCEPT ![h] = "idle"]
    /\ UNCHANGED <<app, client, stop_event, poll_thread, poll_interval, current_airport,
                   threads, sinceStop>>
    /\ UNCHANGED <<monVars, hubVars, apiVars>>

\* stop_monitoring (POST /api/stop) up to the join: if self._polling, the stop
\* event is set; otherwise the reply at once.
WebStopBegin(h) ==
    /\ app = "web"
    /\ hpc[h] = "idle"
    /\ sinceStop' = (\A k \in Handlers : hpc[k] \notin {"spawn", "flag"})
    /\ IF polling
       THEN /\ stop_event' = TRUE
            /\ hpc' = [hpc EXCEPT ![h] = "join"]
       ELSE UNCHANGED <<stop_event, hpc>>
    /\ UNCHANGED <<app, client, polling, poll_thread, poll_interval, current_airport, threads>>
    /\ UNCHANGED <<monVars, hubVars, apiVars>>

\* stop_monitoring: self._poll_thread.join(timeout=5) returns, because the
\* thread has ended or because 5 s have passed; then self._polling = False.
WebStopEnd(h) ==
    /\ hpc[h] = "join"
    /\ polling' = FALSE
    /\ hpc' = [hpc EXCEPT ![h] = "idle"]
    /\ UNCHANGED <<app, client, stop_event, poll_thread, poll_interval, current_airport,
                   threads, sinceStop>>
    /\ UNCHANGED <<monVars, hubVars, apiVars>>

\* GlycolApp._start_polling, run on the Tk main thread: refused without a
\* client, an airport or a bounding box; else the filter tokens are resolved
\* (no token is refused), then set_filter, reset, the flag, the event and the
\* thread.
UiStartPolling(r) ==
    /\ app = "ui"
    /\ ~polling
    /\ (client /\ r.airport # "" /\ BoundingBox(r.airport) # <<>>) => CanSpawn
    /\ sinceStop' = FALSE
    /\ IF ~client \/ r.airport = "" \/ BoundingBox(r.airport) = <<>>
       THEN UNCHANGED <<filter_mode, filter_values, prev_states, lastOp, polling,
                        stop_event, threads, poll_thread>>
       ELSE /\ filter_mode' = StartFilterMode(r.mode)
            /\ filter_values' = NormalizeValues(UiFilterValues(r.mode, r.values))
            /\ prev_states' = EmptyMap
            /\ lastOp' = "reset"
            /\ polling' = TRUE
            /\ stop_event' = EventClear(stop_event)
            /\ threads' = [threads EXCEPT ![NewThread] =
                                [Unborn EXCEPT !.pc = "test", !.airport = r.airport]]
            /\ poll_thread' = NewThread
    /\ UNCHANGED <<app, client, poll_interval, current_airport, hpc>>
    /\ UNCHANGED <<monLocals, hubVars, apiVars>>

\* GlycolApp._stop_polling: the flag, then the event; no join.
UiStopPolling ==
    /\ app = "ui"
    /\ polling
    /\ polling' = FALSE
    /\ stop_event' = TRUE
    /\ sinceStop' = TRUE
    /\ UNCHANGED <<app, client, poll_thread, poll_interval, current_airport, threads, hpc>>
    /\ UNCHANGED <<monVars, hubVars, apiVars>>

\* GlycolApp._toggle_polling, the command of the Start/Stop button.
UiTogglePolling(r) == IF polling THEN UiStopPolling ELSE UiStartPolling(r)

\* _poll_loop at `while not self._stop_event.is_set()`: the loop ends, or its
\* body begins. web.py's body first sleeps 1 s and starts over without a client
\* or an airport, and sleeps for the interval and starts over when the airport
\* has no bounding box.
LoopTest(l) ==
    /\ threads[l].pc = "test"
    /\ threads' = [threads EXCEPT ![l] =
            IF stop_event THEN [Unborn EXCEPT !.pc = "done", !.exit = "stop"]
            ELSE IF app = "web" /\ (~client \/ current_airport = "")
                 THEN [@ EXCEPT !.pc = "sleep", !.failed = FALSE]
            ELSE IF app = "web" /\ BoundingBox(current_airport) = <<>>
                 THEN [@ EXCEPT !.pc = "sleep", !.failed = FALSE]
            ELSE [@ EXCEPT !.pc = "fetch"]]
    /\ UNCHANGED <<app, client, polling, stop_event, poll_thread, poll_interval,
                   current_airport, hpc, sinceStop>>
    /\ UNCHANGED <<monVars, hubVars, apiVars>>

\* states = self.client.get_states(bbox) returns or raises; an exception goes
\* to the except clause of the loop, which reports it.
Fetch(l, outcome) ==
    /\ threads[l].pc = "fetch"
    /\ threads' = [threads EXCEPT ![l] =
            IF outcome = "raised"
            THEN [@ EXCEPT !.pc = AfterException(app), !.failed = TRUE]
            ELSE [@ EXCEPT !.pc = "process", !.states = outcome]]
    /\ UNCHANGED <<app, client, polling, stop_event, poll_thread, poll_interval,
                   current_airport, hpc, sinceStop>>
    /\ UNCHANGED <<monVars, hubVars, apiVars>>

\* The rest of the loop body. web.py calls self.monitor.update(state) for each
\* state, a method AircraftMonitor does not have (AttributeError), so only an
\* empty list gets as far as the broadcasts; ui.py calls
\* process_states(states, airport=airport), a keyword process_states does not
\* take (TypeError). The except clause reports the exception.
Process(l) ==
    /\ threads[l].pc = "process"
    /\ threads' = [threads EXCEPT ![l] =
            IF app = "ui" \/ threads[l].states = "states"
            THEN [@ EXCEPT !.pc = AfterException(app), !.failed = TRUE,
                           !.states = "none"]
            ELSE [@ EXCEPT !.pc = "sleep", !.failed = FALSE, !.states = "none"]]
    /\ UNCHANGED <<app, client, polling, stop_event, poll_thread, poll_interval,
                   current_airport, hpc, sinceStop>>
    /\ UNCHANGED <<monVars, hubVars, apiVars>>

\* The time of a sleep of the loop is up: time.sleep returns, or the wait on
\* the stop event times out.
TimerExpires(l) ==
    /\ threads[l].pc \in {"sleep", "errsleep"}
    /\ threads' = [threads EXCEPT ![l].pc = "test"]
    /\ UNCHANGED <<app, client, polling, stop_event, poll_thread, poll_interval,
                   current_airport, hpc, sinceStop>>
    /\ UNCHANGED <<monVars, hubVars, apiVars>>

\* A wait on the stop event returns before its time is up because the event is set.
WakeOnStop(l) ==
    /\ threads[l].pc \in {"sleep", "errsleep"}
    /\ Cancellable(app)
    /\ stop_event
    /\ threads' = [threads EXCEPT ![l].pc = "test"]
    /\ UNCHANGED <<app, client, polling, stop_event, poll_thread, poll_interval,
                   current_airport, hpc, sinceStop>>
    /\ UNCHANGED <<monVars, hubVars, apiVars>>

\* The steps of one poll-loop thread, and of one web request in progress.
ThreadStep(l) ==
    \/ LoopTest(l)
    \/ \E outcome \in FetchOutcomes : Fetch(l, outcome)
    \/ Process(l)
    \/ TimerExpires(l)
    \/ WakeOnStop(l)

HandlerStep(h) == WebStartThread(h) \/ WebStartEnd(h) \/ WebStopEnd(h)

CtlNext ==
    \/ \E authenticated \in BOOLEAN : RunWebApp(authenticated)
    \/ RunApp
    \/ UiDoAuth
    \/ \E n \in {5, UiPollInterval} : UiSetPollVar(n)
    \/ \E h \in Handlers, r \in StartRequests : WebStartBegin(h, r)
    \/ \E h \in Handlers : WebStopBegin(h)
    \/ \E h \in Handlers : HandlerStep(h)
    \/ \E r \in StartRequests : UiTogglePolling(r)
    \/ \E l \in Threads : ThreadStep(l)

(***************************************************************************)
(* Specifications                                                          *)
(***************************************************************************)

Init == MonInit /\ HubInit /\ ApiInit /\ CtlInit

SpecMon == Init /\ [][MonNext]_vars

SpecHub == Init /\ [][HubNext]_vars

SpecApi == Init /\ [][ApiNext]_vars

SpecCtl == Init /\ [][CtlNext]_vars

\* Every poll-loop thread keeps being scheduled and every sleep and fetch comes
\* to an end; a request handler that has begun runs on to its reply (its join
\* has a timeout). Nothing obliges a user to send a request.
SpecCtlFair ==
    /\ SpecCtl
    /\ \A l \in Threads : WF_vars(ThreadStep(l))
    /\ \A h \in Handlers : WF_vars(HandlerStep(h))

(***************************************************************************)
(* Properties of the transition detector (checked under SpecMon)           *)
(***************************************************************************)

\* A process_states call has returned and nothing has touched the monitor since.
CallDone == monPc = "idle" /\ lastOp = "process_states"

\* The events of the last call that carry the given icao24, in order.
EventsOf(i) == SelectSeq(events, LAMBDA e : e.icao24 = i)

\* The claims' own reading of "over the ceiling": a non-null baro_altitude
\* greater than 1500 ft in metres.
OverCeiling(state) ==
    state.baro_altitude # <<>> /\ state.baro_altitude[1] > 1500 * 3048

\* The states of the last call's batch for icao24 i that pass the filter and the
\* ceiling, in order.
SurvivorsOf(i) ==
    SelectSeq(batch, LAMBDA s : /\ s.icao24 = i
                                 /\ MatchesFilter(filter_mode, filter_values, s)
                                 /\ ~OverCeiling(s))

\* The event type of a first sighting with the given on_ground.
NewType(on_ground) == IF on_ground THEN "new_ground" ELSE "new_airborne"

\* C1: an aircraft tracked by the previous cycle that has one state passing the
\* filter and the ceiling in this call gets exactly one landing event if it went
\* airborne -> ground, exactly one takeoff event if ground -> airborne, and no
\* event if its on_ground is unchanged.
C1_TransitionEvents ==
    CallDone =>
        \A i \in DOMAIN prevBefore :
            Len(SurvivorsOf(i)) = 1 =>
                LET on_ground == SurvivorsOf(i)[1].on_ground
                    ev == EventsOf(i)
                IN  /\ (~prevBefore[i] /\ on_ground) =>
                            (Len(ev) = 1 /\ ev[1].type = "landing")
                    /\ (prevBefore[i] /\ ~on_ground) =>
                            (Len(ev) = 1 /\ ev[1].type = "takeoff")
                    /\ (prevBefore[i] = on_ground) => ev = <<>>

\* C1's case: a1b2c3 on the ground in the previous cycle, airborne in this one,
\* and the call returned exactly one takeoff for it.
C1_Witness ==
    /\ CallDone
    /\ "a1b2c3" \in DOMAIN prevBefore
    /\ prevBefore["a1b2c3"]
    /\ Len(SurvivorsOf("a1b2c3")) = 1
    /\ ~SurvivorsOf("a1b2c3")[1].on_ground
    /\ Len(EventsOf("a1b2c3")) = 1
    /\ EventsOf("a1b2c3")[1].type = "takeoff"

\* C2: an icao24 with no entry in the previous cycle's TrackedState gets one
\* event per surviving state, new_ground if that state is on the ground and
\* new_airborne otherwise; never takeoff or landing.
C2_FirstAppearance ==
    CallDone =>
        \A i \in Icaos \ DOMAIN prevBefore :
            /\ Len(EventsOf(i)) = Len(SurvivorsOf(i))
            /\ \A k \in 1..Len(EventsOf(i)) :
                    /\ EventsOf(i)[k].on_ground = SurvivorsOf(i)[k].on_ground
                    /\ EventsOf(i)[k].type = NewType(SurvivorsOf(i)[k].on_ground)

\* C2's case: d4e5f6 was not tracked, appears on the ground, and is reported
\* as new_ground.
C2_Witness ==
    /\ CallDone
    /\ "d4e5f6" \notin DOMAIN prevBefore
    /\ Len(EventsOf("d4e5f6")) = 1
    /\ EventsOf("d4e5f6")[1].type = "new_ground"
    /\ SurvivorsOf("d4e5f6")[1].on_ground

\* C3: an aircraft that was tracked, was then dropped by a call it was absent
\* from and has been absent since, is classified as a new sighting when it
\* reappears, whatever its on_ground was before the gap: no takeoff or landing
\* across a gap.
C3_ReappearanceIsNew ==
    CallDone =>
        \A i \in Icaos :
            gapBefore[i] # "no" =>
                /\ Len(EventsOf(i)) = Len(SurvivorsOf(i))
                /\ \A k \in 1..Len(EventsOf(i)) :
                        /\ EventsOf(i)[k].type \notin {"takeoff", "landing"}
                        /\ EventsOf(i)[k].type = NewType(SurvivorsOf(i)[k].on_ground)

\* C3's case: a1b2c3 was on the ground when it dropped out, comes back airborne
\* and is reported as new_airborne (not as a takeoff).
C3_Witness ==
    /\ CallDone
    /\ gapBefore["a1b2c3"] = "ground"
    /\ Len(EventsOf("a1b2c3")) = 1
    /\ EventsOf("a1b2c3")[1].type = "new_airborne"

\* The states of the last call's batch for icao24 i that are not over the ceiling.
UnderCeilingOf(i) == SelectSeq(batch, LAMBDA s : s.icao24 = i /\ ~OverCeiling(s))

\* C4: a state over the ceiling produces no event and no TrackedState entry: an
\* aircraft gets at most one event per state that is not over the ceiling, and
\* one whose states in the batch are all over the ceiling has no entry in
\* TrackedState after the call.
C4_OverCeilingIgnored ==
    CallDone =>
        \A i \in Icaos :
            /\ Len(EventsOf(i)) <= Len(UnderCeilingOf(i))
            /\ UnderCeilingOf(i) = <<>> => i \notin DOMAIN prev_states

\* C4's case: a tracked aircraft is seen only over the ceiling: no event, and
\* its entry is gone.
C4_Witness ==
    /\ CallDone
    /\ \E i \in DOMAIN prevBefore :
        /\ \E k \in 1..Len(batch) : batch[k].icao24 = i /\ OverCeiling(batch[k])
        /\ UnderCeilingOf(i) = <<>>
        /\ EventsOf(i) = <<>>
        /\ i \notin DOMAIN prev_states

\* C5: after set_filter, TrackedState (_prev_states) is empty.
C5_SetFilterResets ==
    lastOp = "set_filter" => DOMAIN prev_states = {}

(***************************************************************************)
(* Properties of the broadcast hub (checked under SpecHub)                 *)
(***************************************************************************)

\* The place of a queue in the order of subscription.
SubscribedAt(q) == CHOOSE k \in 1..Len(subOrder) : subOrder[k] = q

\* C6: a publish visits the queues of the active set in the order they
\* subscribed and enqueues the one message it built to each queue that does not
\* hold 50 messages; a queue that holds 50 gets nothing and is out of the active
\* set when the publish returns; and nothing is enqueued to a queue an earlier
\* publish removed.
C6_PublishFanOut ==
    /\ \A k \in 1..Len(visitLog) :
            /\ k <= Len(pubSnapshot) /\ visitLog[k].q = pubSnapshot[k]
            /\ visitLog[k].put = ~visitLog[k].wasFull
            /\ visitLog[k].msg = message
            /\ visitLog[k].put => visitLog[k].q \notin evicted
    /\ \A k, l \in 1..Len(pubSnapshot) :
            k < l => SubscribedAt(pubSnapshot[k]) < SubscribedAt(pubSnapshot[l])
    /\ pubPc = "idle" =>
            /\ Len(visitLog) = Len(pubSnapshot)
            /\ \A k \in 1..Len(visitLog) :
                    IF visitLog[k].wasFull
                    THEN ~InList(visitLog[k].q, event_queues)
                    ELSE InList(visitLog[k].q, event_queues)

\* C6's case: a publish over two subscribers has returned; q2, which subscribed
\* first, got the message, and q1, whose queue was full, was removed.
C6_Witness ==
    /\ pubPc = "idle"
    /\ subOrder = <<"q2", "q1">>
    /\ Len(visitLog) = 2
    /\ visitLog[1].q = "q2" /\ visitLog[1].put /\ visitLog[1].msg = message
    /\ visitLog[2].q = "q1" /\ visitLog[2].wasFull /\ ~visitLog[2].put
    /\ event_queues = <<"q2">>
    /\ "q1" \in evicted

\* C7: every subscriber queue holds at most 50 messages.
C7_QueueBounded == \A s \in Subscribers : Len(queue[s]) <= 50

\* C7's case: a consumer stalled, its queue filled up to 50 messages and a
\* further publish found it full.
C7_Witness == \E s \in Subscribers : Len(queue[s]) = 50 /\ s \in evicted

\* C8: a publish never waits for a consumer: a publish can always begin, and
\* while one is in progress its next step can be taken, whatever the queues
\* hold; it visits each listed queue once and then returns.
C8_PublishNeverBlocks ==
    /\ pubPc = "idle" => ENABLED BroadcastBegin
    /\ pubPc # "idle" => ENABLED PublisherStep
    /\ pubPc # "idle" => pubI = Len(visitLog) + 1 /\ pubI <= Len(event_queues) + 1

\* C8's case: the publish is about to visit a queue whose consumer has left it full.
C8_Witness ==
    /\ pubPc = "loop"
    /\ pubI <= Len(event_queues)
    /\ Len(queue[event_queues[pubI]]) = 50

(***************************************************************************)
(* Properties of the state client (checked under SpecApi)                  *)
(***************************************************************************)

\* C9: a get_states call made before (time the last 429 was received) +
\* Retry-After returns an empty list at once and sends no request, neither a
\* state request nor a token request; and the call that received the 429 sent
\* exactly one state request and returned an empty list.
C9_BackoffWindow ==
    /\ call.inWindow =>
            /\ apiPc = "idle"
            /\ call.result = "empty"
            /\ call.stateReqs = 0
            /\ call.tokenReqs = 0
    /\ call.first429 =>
            /\ apiPc = "idle"
            /\ call.result = "empty"
            /\ call.stateReqs = 1

\* C9's case: a 429 with Retry-After: 5 was received, and a call made 2 s later
\* has returned an empty list without sending anything.
C9_Witness ==
    /\ rl429 # <<>>
    /\ rl429[1].n = 5
    /\ clock = rl429[1].at + 2
    /\ call.inWindow
    /\ call.result = "empty"
    /\ call.stateReqs = 0

\* C10: a get_states call that got a 401 and returned has sent exactly one token
\* request after the 401 and exactly two state requests (the first and one
\* retry), and has returned an empty list if the retry failed.
C10_OneReauthOneRetry ==
    (apiPc = "idle" /\ call.got401 /\ call.result \in {"empty", "states"}) =>
        /\ call.reauths = 1
        /\ call.stateReqs = 2
        /\ call.retryFailed => call.result = "empty"

\* C11: get_states never raises to its caller: no call ends with an exception.
C11_NeverRaises == call.result # "raised"

\* A step in which a get_headers call of get_states runs (ensure_valid, then
\* the header or the exception).
GetHeadersStep == apiPc \in {"headers1", "headers2"} /\ apiPc' # apiPc

\* C12: the expiry the token manager keeps is (time of the last successful
\* authentication) + expires_in - 60, and an ensure_valid call sends a token
\* request exactly when no token is held or the held token has 60 s or less of
\* real lifetime left (now >= that expiry); otherwise it sends none.
C12_RenewsInsideMargin ==
    /\ [](grant # <<>> => expires_at = grant[1].at + grant[1].expires_in - 60)
    /\ [][GetHeadersStep =>
            call'.tokenReqs = call.tokenReqs +
                (IF token = <<>> \/ LeftOf(grant, clock) <= 60 THEN 1 ELSE 0)]_vars

\* C12's case: ensure_valid found a token held that has 10 s of real lifetime
\* left and sent a token request (which failed, so that the grant on record is
\* still that token's).
C12_Witness ==
    /\ authLog # <<>>
    /\ authLog[1].by = "get_headers"
    /\ authLog[1].held
    /\ authLog[1].reply = "fail"
    /\ LeftOf(grant, clock) = 10

\* C13: when get_headers returns an Authorization header, the token in it has
\* more than 60 s of real lifetime left.
C13_SentTokenUsable ==
    [][(GetHeadersStep /\ apiPc' \in {"request", "retry"} /\ headers' # <<>>) =>
            (headers' = <<grant'[1].at>> /\ LeftOf(grant', clock') > 60)]_vars

\* C14: an authenticate that fails with a RequestException leaves no token held
\* and raises nothing; the get_headers call it was made by returns {}; and the
\* token of a header that get_headers returns is the token held.
C14_FailedAuthClearsToken ==
    /\ (authLog # <<>> /\ authLog[1].reply = "fail") =>
            /\ token = <<>>
            /\ call.result # "raised"
            /\ authLog[1].by = "get_headers" =>
                    (apiPc \in {"request", "retry"} /\ headers = <<>>)
    /\ (apiPc \in {"request", "retry"} /\ headers # <<>>) => headers = token

\* C14's case: a token was held and had expired, the authentication get_headers
\* attempted failed, and get_headers returned {} with no token held.
C14_Witness ==
    /\ authLog # <<>>
    /\ authLog[1].by = "get_headers"
    /\ authLog[1].held
    /\ authLog[1].reply = "fail"
    /\ apiPc = "request"
    /\ headers = <<>>
    /\ token = <<>>

(***************************************************************************)
(* Properties of the poll controller (checked under SpecCtl, SpecCtlFair)  *)
(***************************************************************************)

\* A step of a start call (the whole of it but the creation of the thread and
\* the setting of the flag, which web.py does in later steps) for request r.
StartCall(r) == (\E h \in Handlers : WebStartBegin(h, r)) \/ UiStartPolling(r)

\* C15: a start call made while the controller is polling changes neither the
\* airport, nor the filter, nor the poll interval, nor TrackedState, and starts
\* no thread.
C15_StartWhileRunningIsNoop ==
    [][\A r \in StartRequests :
            (polling /\ StartCall(r)) =>
                UNCHANGED <<current_airport, filter_mode, filter_values, poll_interval,
                            prev_states, threads, hpc>>]_vars

\* C16: at most one poll-loop thread is alive at any time.
C16_OneLoopAlive == Cardinality(Alive) <= 1

\* A step that starts thread l.
SpawnStep(l) == threads[l].pc = "unborn" /\ threads'[l].pc # "unborn"

\* The filter that request r asks for is the one the monitor holds after the step.
Installed(r) ==
    /\ filter_mode' = (IF r.mode = "all" THEN "None" ELSE r.mode)
    /\ filter_values' = [k \in 1..Len(r.values) |-> Upper(Strip(r.values[k]))]

C18_StopWakesSleeper ==
    \A l \in Threads :
        (threads[l].pc \in {"sleep", "errsleep"} /\ stop_event) => ENABLED WakeOnStop(l)

\* C19: if from some time on a stop has been called and no start is in
\* progress or called after it, then from some time on no poll loop is alive
\* and the controller does not report polling.
C19_StopLeadsToIdle == <>[]sinceStop => <>[](Alive = {} /\ ~polling)

\* C20: a poll loop ends only at its while test, on finding the stop event set;
\* a fetch or a detection and publishing that ends, by returning or by
\* raising, takes the loop to its sleep (an exception is caught and reported);
\* the sleep can end and leads to the while test; and a loop at its while test
\* with the stop event clear begins a further cycle.
C20_ExceptionsDoNotEndLoop ==
    /\ [](\A l \in Threads :
            /\ threads[l].pc = "done" => threads[l].exit = "stop"
            /\ threads[l].pc \in {"sleep", "errsleep"} => ENABLED TimerExpires(l)
            /\ threads[l].pc = "test" => ENABLED LoopTest(l))
    /\ [][\A l \in Threads :
            /\ (threads[l].pc # "done" /\ threads'[l].pc = "done") =>
                    (threads[l].pc = "test" /\ stop_event)
            /\ (threads[l].pc \in {"fetch", "process"} /\
                    threads'[l].pc \notin {"fetch", "process"}) =>
                    /\ threads'[l].pc \in {"sleep", "errsleep"}
                    /\ threads'[l].pc = "errsleep" => threads'[l].failed
            /\ (threads[l].pc \in {"sleep", "errsleep"} /\ threads'[l] # threads[l]) =>
                    threads'[l].pc = "test"
            /\ (threads[l].pc = "test" /\ ~stop_event /\ threads'[l] # threads[l]) =>
                    threads'[l].pc \in {"fetch", "sleep"}]_vars

\* C20's case: a cycle of the loop raised, the exception was reported, and the
\* loop is in the fetch of its next cycle.
C20_Witness ==
    \E l \in Threads :
        /\ threads[l].pc = "fetch"
        /\ threads[l].failed
        /\ ~stop_event

(***************************************************************************)
(* Claims about a poll cycle and about refused starts                      *)
(***************************************************************************)

\* C21: in every poll cycle whose fetch returned a list of states, the loop
\* runs detection on the list and publishes the snapshot (and the new events,
\* if any) before it sleeps: the rest of the loop body, entered with the list,
\* ends in the sleep that closes a cycle without an exception having been
\* reported.
C21_FetchedListIsPublished ==
    [][\A l \in Threads :
            (threads[l].pc = "process" /\ threads'[l].pc # "process") =>
                (threads'[l].pc = "sleep" /\ ~threads'[l].failed)]_vars

\* C22: a start request whose airport code has no bounding box is refused at
\* once and starts nothing: no handler goes on to create a thread, no thread
\* is created, and the flag, the airport and the filter stay as they were.
C22_UnknownAirportRefused ==
    [][\A r \in StartRequests :
            (BoundingBox(r.airport) = <<>> /\ StartCall(r)) =>
                UNCHANGED <<polling, threads, hpc, current_airport, filter_mode,
                            filter_values>>]_vars

\* A filter token of a start request that names nothing known: under the
\* type-group mode neither a group nor the type code of a known aircraft.
UnknownToken(mode, t) ==
    /\ mode = "type_group"
    /\ t \notin {"passenger", "PASSENGER", "b738", "B738"}

\* C23: a start request with a filter token that cannot be resolved is refused
\* and monitoring does not start: no thread is created, no handler goes on to
\* create one, and the flag and the filter stay as they were.
C23_UnknownTokenRefused ==
    [][\A r \in StartRequests :
            ((\E k \in 1..Len(r.values) : UnknownToken(r.mode, r.values[k])) /\ StartCall(r)) =>
                UNCHANGED <<polling, threads, hpc, filter_mode, filter_values>>]_vars

(***************************************************************************)
(* Further properties of the transition detector (checked under SpecMon)   *)
(***************************************************************************)

\* The claims' own reading of two strings being equal up to case.
SameIgnoringCase(a, b) == Lower(a) = Lower(b)

\* The claims' own reading of the identity filter: the state's icao24 or its
\* callsign is, up to case, one of the filter's values.
IdentityMatch(state) ==
    \E k \in 1..Len(filter_values) :
        \/ SameIgnoringCase(filter_values[k], state.icao24)
        \/ state.callsign # NoneVal /\ SameIgnoringCase(filter_values[k], state.callsign)

\* The claims' own reading of the type-group filter: the aircraft's type code
\* is known and is, up to case, one of the filter's values.
TypeMatch(state) ==
    /\ state.icao24 = "a1b2c3"
    /\ \E k \in 1..Len(filter_values) : SameIgnoringCase(filter_values[k], "b738")

\* The claims' own reading of the filter in force: what a state must satisfy
\* to be considered (a mode other than the two named ones restricts nothing).
PassesFilter(state) ==
    IF filter_mode = "aircraft" THEN IdentityMatch(state)
    ELSE IF filter_mode = "type_group" THEN TypeMatch(state)
    ELSE TRUE

\* The states of the last call's batch for icao24 i that passed the filter and
\* the ceiling, in order.
PassedOf(i) == SelectSeq(batch, LAMBDA s : s.icao24 = i /\ PassesFilter(s) /\ ~OverCeiling(s))

\* C24: after a process_states call, TrackedState has an entry exactly for the
\* icao24s with a state that passed the filter and the ceiling in that call,
\* each mapped to the on_ground of that state (of the last such state, if the
\* batch has several); aircraft absent from the call or skipped in it have none.
C24_TrackedStateIsThisCall ==
    CallDone =>
        /\ DOMAIN prev_states = {i \in Icaos : PassedOf(i) # <<>>}
        /\ \A i \in DOMAIN prev_states :
                prev_states[i] = PassedOf(i)[Len(PassedOf(i))].on_ground

\* C24's case: both aircraft were tracked; the call has a state of one that
\* passes and a state of the other that is skipped (filtered out or over the
\* ceiling): one entry is left, with the on_ground of the state that passed,
\* which differs from the one held before.
C24_Witness ==
    /\ CallDone
    /\ DOMAIN prevBefore = Icaos
    /\ Len(batch) = 2
    /\ batch[1].icao24 # batch[2].icao24
    /\ DOMAIN prev_states = {batch[1].icao24}
    /\ prev_states[batch[1].icao24] = batch[1].on_ground
    /\ prevBefore[batch[1].icao24] # batch[1].on_ground

\* C25: reset() empties TrackedState and leaves the filter mode and the filter
\* values as they were (the ceiling is fixed at construction).
C25_ResetFrame ==
    [][lastOp' = "reset" =>
            /\ DOMAIN prev_states' = {}
            /\ filter_mode' = filter_mode
            /\ filter_values' = filter_values]_vars

\* C25's case: a reset has emptied a TrackedState that had entries, with an
\* identity filter installed.
C25_Witness ==
    /\ lastOp = "reset"
    /\ DOMAIN prevBefore # {}
    /\ DOMAIN prev_states = {}
    /\ filter_mode = "aircraft"
    /\ filter_values # <<>>

\* A step of process_states' loop over one state of the batch, and that state.
LoopStep == monPc = "loop" /\ Len(batch') = Len(batch) + 1
Taken == batch'[Len(batch')]

\* C27: under the identity filter a state is considered exactly when its
\* icao24 or its callsign is, up to case, one of the filter's values, and
\* without a filter every state is considered: a considered state that is not
\* over the ceiling gets its TrackedState entry in the step, and a state that
\* is not considered changes neither the events nor the entries.
C27_IdentityFilter ==
    [][(LoopStep /\ filter_mode \in {NoneVal, "aircraft"}) =>
            IF filter_mode = NoneVal \/ IdentityMatch(Taken)
            THEN ~OverCeiling(Taken) =>
                    /\ Taken.icao24 \in DOMAIN current'
                    /\ current'[Taken.icao24] = Taken.on_ground
            ELSE UNCHANGED <<current, events>>]_vars

\* C27's case: under the identity filter A1B2C3 a call saw a state of a1b2c3
\* (matched although the cases differ) and a state of d4e5f6 with no altitude
\* (not matched): only the first has an entry, the second has no event.
C27_Witness ==
    /\ CallDone
    /\ filter_mode = "aircraft"
    /\ filter_values = <<"A1B2C3">>
    /\ \E k \in 1..Len(batch) : batch[k].icao24 = "d4e5f6" /\ batch[k].baro_altitude = <<>>
    /\ DOMAIN prev_states = {"a1b2c3"}
    /\ EventsOf("d4e5f6") = <<>>

\* Event e is the event of state s.
EventOfState(e, s) ==
    /\ e.icao24 = s.icao24
    /\ e.callsign = s.callsign
    /\ e.on_ground = s.on_ground
    /\ e.altitude_m = s.baro_altitude

\* The events evs come from states of the batch b taken in the order of b.
RECURSIVE InBatchOrder(_, _)
InBatchOrder(evs, b) ==
    IF evs = <<>> THEN TRUE
    ELSE IF b = <<>> THEN FALSE
    ELSE IF EventOfState(evs[1], b[1]) THEN InBatchOrder(Tail(evs), Tail(b))
    ELSE InBatchOrder(evs, Tail(b))

\* C26: the events one process_states call returns all carry one timestamp,
\* the time at which the call began (0 ticks after the call read the clock),
\* however long the call takes, and they are in the order of the states of the
\* batch that produced them.
C26_OneTimestampBatchOrder ==
    (lastOp = "process_states" \/ monPc = "loop") =>
        /\ \A k \in 1..Len(events) :
                events[k].timestamp = events[1].timestamp /\ events[k].timestamp = 0
        /\ InBatchOrder(events, batch)

\* C26's case: a call has returned two events of different aircraft, and the
\* clock ticked between the start of the call and its end.
C26_Witness ==
    /\ CallDone
    /\ Len(events) = 2
    /\ events[1].icao24 # events[2].icao24
    /\ events[1].timestamp = events[2].timestamp
    /\ elapsed > 0

(***************************************************************************)
(* Further properties of the state client (checked under SpecApi)          *)
(***************************************************************************)

\* The claims' own reading of the seconds a 429 asks for: its Retry-After, or
\* 10 when the header is absent.
SecondsAsked(hdr) == IF hdr = "absent" THEN 10 ELSE IF hdr = "5" THEN 5 ELSE 0

\* C28: once a 429 has been handled, the backoff deadline is the time of that
\* response plus its Retry-After seconds (10 without the header); and a
\* get_states call made at or after the deadline is not cut short: it has
\* sent a request by the time it ends.
C28_BackoffDeadline ==
    /\ rl429 # <<>> =>
            /\ backoff_until = rl429[1].at + SecondsAsked(rl429[1].hdr)
            /\ rl429[1].n = SecondsAsked(rl429[1].hdr)
    /\ (apiPc = "idle" /\ call.result # "none" /\ ~call.inWindow) =>
            call.stateReqs + call.tokenReqs >= 1

\* C28's case: a 429 without Retry-After was handled, and a call made exactly
\* 10 s after it has got as far as sending its state request.
C28_Witness ==
    /\ rl429 # <<>>
    /\ rl429[1].hdr = "absent"
    /\ backoff_until = rl429[1].at + 10
    /\ apiPc = "request"
    /\ now = backoff_until

\* C29: one get_headers call (one ensure_valid) sends at most one token
\* request: none if it has no reply to show for it, exactly one if the token
\* endpoint answered, whether with a token or with a failure.
C29_NoRetryLoop ==
    [][GetHeadersStep =>
            /\ call'.tokenReqs \in {call.tokenReqs, call.tokenReqs + 1}
            /\ authLog'[1].reply = "none" => call'.tokenReqs = call.tokenReqs
            /\ authLog'[1].reply # "none" => call'.tokenReqs = call.tokenReqs + 1]_vars

\* C29's case: a get_headers call that held no token sent its token request,
\* which failed, and get_states goes on to its state request having sent that
\* one token request only.
C29_Witness ==
    /\ authLog # <<>>
    /\ authLog[1].by = "get_headers"
    /\ ~authLog[1].held
    /\ authLog[1].reply = "fail"
    /\ apiPc = "request"
    /\ call.tokenReqs = 1

\* A token request is answered by a failure in this step.
TokenRequestFails == authLog' # <<>> /\ authLog'[1].reply = "fail" /\ authLog' # authLog

\* C30: a failed token request does not end the get_states call it was sent
\* in with an exception (the call goes on towards its state request); and in
\* a call that begins after a failed token request and is not cut short by
\* the backoff window, get_headers sends a token request again.
C30_FailedAuthIsRetried ==
    [][/\ TokenRequestFails =>
            (call'.result # "raised" /\ apiPc' \in {"request", "headers2", "retry"})
       /\ (apiPc = "headers1" /\ apiPc' # "headers1" /\ call.failures >= 1) =>
            (call'.tokenReqs = 1 /\ authLog'[1].reply # "none")]_vars

\* C30's case: a token request failed in an earlier call, and this call, made
\* outside any backoff window, has sent one token request of its own, which
\* failed too, and goes on to its state request.
C30_Witness ==
    /\ call.failures = 2
    /\ call.tokenReqs = 1
    /\ apiPc = "request"
    /\ ~call.inWindow
    /\ token = <<>>

(***************************************************************************)
(* Further properties of the broadcast hub (checked under SpecHub)         *)
(***************************************************************************)

\* C31: the accesses to the subscriber list exclude one another: the lock is
\* held exactly while a publish is between its first and its last access, and
\* during that time no subscribe or unsubscribe takes effect (no stream is
\* opened or closed, and the list changes only by the publish's own removal
\* of dead queues at its end).
C31_SubscriberSetExclusive ==
    /\ []((pubPc = "loop") <=> (lock = "publisher"))
    /\ [][pubPc = "loop" =>
            /\ subPc' = subPc
            /\ pubPc' = "loop" => event_queues' = event_queues
            /\ pubPc' = "idle" =>
                    \A k \in 1..Len(event_queues') : InList(event_queues'[k], event_queues)]_vars

\* C31's case: a publish has visited the first queue of the list and holds the
\* lock, while a stream that has not subscribed yet and an open stream that
\* could be closed both have to wait.
C31_Witness ==
    /\ pubPc = "loop"
    /\ lock = "publisher"
    /\ pubI = 2
    /\ \E s \in Subscribers : subPc[s] = "new"
    /\ \E s \in Subscribers : subPc[s] = "streaming"

\* The number of times queue q is in the list.
TimesListed(q) == Cardinality({k \in 1..Len(event_queues) : event_queues[k] = q})

\* C33: a queue is in the list of live queues, once, exactly while its stream
\* has subscribed, has not been closed and has not been evicted by a publish
\* that found it full; and closing a stream whose queue was evicted leaves
\* the list as it is.
C33_ActiveSetLifetime ==
    /\ [](\A s \in Subscribers :
            /\ TimesListed(s) = (IF subPc[s] = "streaming" /\ s \notin evicted THEN 1 ELSE 0))
    /\ [][\A s \in Subscribers :
            (subPc[s] = "streaming" /\ subPc'[s] = "closed" /\ s \in evicted) =>
                event_queues' = event_queues]_vars

\* C33's case: a stream whose queue had been evicted has been closed, while
\* the other stream's queue is still listed.
C33_Witness ==
    /\ \E s \in evicted : subPc[s] = "closed"
    /\ \E s \in Subscribers : TimesListed(s) = 1

\* The publish in progress has already visited queue q.
VisitedNow(q) == \E k \in 1..Len(event_queues) : k < pubI /\ event_queues[k] = q

\* The message the next enqueue on queue q will carry: that of the publish in
\* progress if it has not come to q yet, else that of the next publish.
DueNext(q) == IF pubPc = "loop" /\ ~VisitedNow(q) THEN message ELSE msgSeq

\* C34: what a stream has yet to yield is, in order and without a gap, the
\* run of messages that starts with the one it is due next (the first one
\* published after it subscribed, then the successor of each one yielded): a
\* get takes the oldest; while the queue is live the run reaches up to the
\* latest message published; and the run of a queue found full stops just
\* before the message of the publish that found it full.
C34_SubscriberSeesRun ==
    /\ [](\A s \in Subscribers :
            subPc[s] = "streaming" =>
                /\ \A k \in 1..Len(queue[s]) :
                        queue[s][k] = (expected[s] + k - 1) % MsgWrap
                /\ (InList(s, event_queues) /\ ~InList(s, dead_queues)) =>
                        (expected[s] + Len(queue[s])) % MsgWrap = DueNext(s)
                /\ InList(s, dead_queues) =>
                        (expected[s] + Len(queue[s])) % MsgWrap = message)
    /\ [][\A s \in Subscribers :
            (subPc'[s] = "streaming" /\ Len(queue'[s]) < Len(queue[s])) =>
                (queue[s][1] = expected[s] /\ queue'[s] = Tail(queue[s]))]_vars

\* C34's case: two messages published since the first stream subscribed wait
\* in its queue in order, and the other stream, which subscribed between the
\* two publishes, holds only the second of them.
C34_Witness ==
    /\ pubPc = "idle"
    /\ subOrder = <<"q1", "q2">>
    /\ subPc["q1"] = "streaming" /\ subPc["q2"] = "streaming"
    /\ Len(queue["q1"]) = 2
    /\ Len(queue["q2"]) = 1
    /\ expected["q1"] # expected["q2"]
    /\ queue["q1"][2] = queue["q2"][1]

(***************************************************************************)
(* Further properties of the poll controller (checked under SpecCtl)       *)
(***************************************************************************)

C35_OneEventPerAircraft ==
    CallDone =>
        \A i \in Icaos :
            /\ Len(EventsOf(i)) <= 1
            /\ Cardinality({j \in DOMAIN prev_states : j = i}) <= 1

(***************************************************************************)
(* Further properties of the state client (checked under SpecApi)          *)
(***************************************************************************)

\* C36: every 429 that get_states receives sets the backoff deadline to the
\* time of the response plus the seconds it asks for, also when it answers
\* the retry that follows a 401.
C36_Every429SetsBackoff ==
    [][/\ (apiPc = "request" /\ call'.first429) =>
            backoff_until' >= clock + 5
       /\ (apiPc = "retry" /\ call'.retry429 \in {"absent", "5"}) =>
            backoff_until' = clock + SecondsAsked(call'.retry429)]_vars

\* C37: a get_states call made inside the backoff window changes nothing: it
\* returns an empty list having sent no state request and no token request,
\* and the token, its expiry, rate_limit_remaining and the backoff deadline
\* are what they were.
C37_InWindowCallIsInert ==
    [][call'.inWindow =>
            /\ apiPc' = "idle"
            /\ call'.result = "empty"
            /\ call'.stateReqs = 0
            /\ call'.tokenReqs = 0
            /\ UNCHANGED <<token, expires_at, rate_limit_remaining, backoff_until>>]_vars

\* C37's case: a call made inside the window has returned while the token
\* held is already past its expiry, and it has not been renewed.
C37_Witness ==
    /\ call.inWindow
    /\ apiPc = "idle"
    /\ token # <<>>
    /\ clock >= expires_at
    /\ rate_limit_remaining # <<>>
    /\ clock < backoff_until

\* C38: whenever the controller reports that it is not polling, and no start
\* request is between creating its thread and setting the flag, no poll-loop
\* thread is alive.
C38_NotPollingMeansNoLoop ==
    (~polling /\ \A h \in Handlers : hpc[h] # "flag") => Alive = {}

\* The filter modes the detector knows.
KnownModes == {NoneVal, "aircraft", "type_group"}

\* C39: with a filter mode that is none of None, "aircraft" and "type_group"
\* installed, process_states considers every state, as it does with no filter:
\* each state that is not over the ceiling gets its TrackedState entry in the
\* step that takes it, whatever the filter's values are.
C39_UnknownModeRestrictsNothing ==
    [][(LoopStep /\ filter_mode \notin KnownModes /\ ~OverCeiling(Taken)) =>
            /\ Taken.icao24 \in DOMAIN current'
            /\ current'[Taken.icao24] = Taken.on_ground]_vars

\* C39's case: under the mode "callsign" with the value D4E5F6 a call has
\* tracked a1b2c3, which is not among the values, and has an event for it.
C39_Witness ==
    /\ CallDone
    /\ filter_mode \notin KnownModes
    /\ filter_values = <<"D4E5F6">>
    /\ "a1b2c3" \in DOMAIN prev_states
    /\ EventsOf("a1b2c3") # <<>>


====
